---------------------------- MODULE Spec2Model ----------------------------
(***************************************************************************)
(* Model of client/go/outline/parse.go: doParseTunnelConfig, the tunnel    *)
(* configuration normalisation and validation pipeline.                    *)
(*                                                                         *)
(* Strings are sequences of lexemes (TLA+ strings): a one-character string *)
(* per character of user data, and one string per fixed piece of syntax    *)
(* the serializers write (a key, ":", a line break, an indentation unit).  *)
(* A YAML document is a tree of nodes (yaml.Node); the top level of an     *)
(* input document is a sequence of [key, val] entries in document order.   *)
(***************************************************************************)
EXTENDS Integers, Sequences, FiniteSets, TLC

(***************************************************************************)
(* Bounds of the model.                                                    *)
(***************************************************************************)
MaxPad == 1
MaxTail == 2
MaxPort == 1

(* server_port of the legacy configurations of parse_test.go *)
TestPort == 4321

(***************************************************************************)
(* Strings: strings.TrimSpace, strings.ReplaceAll, strings.HasPrefix.      *)
(***************************************************************************)
SP == " "
NL == "\n"
BS == "\\"
SL == "/"

IsSpace(c) == c \in {SP, NL, "\t", "\r"}

Tail2(s) == SubSeq(s, 3, Len(s))

RECURSIVE TrimLeft(_)
TrimLeft(s) ==
    IF s # <<>> /\ IsSpace(Head(s)) THEN TrimLeft(Tail(s)) ELSE s

RECURSIVE TrimRight(_)
TrimRight(s) ==
    IF s # <<>> /\ IsSpace(s[Len(s)]) THEN TrimRight(SubSeq(s, 1, Len(s) - 1)) ELSE s

TrimSpaceLeftOnly(s) == TrimLeft(s)

TrimSpace(s) == TrimRight(TrimLeft(s))

(* strings.ReplaceAll(s, "\\/", "/"): left to right, non-overlapping *)
RECURSIVE UnescapeSlashes(_)
UnescapeSlashes(s) ==
    IF s = <<>> THEN <<>>
    ELSE IF Len(s) >= 2 /\ s[1] = BS /\ s[2] = SL
         THEN <<SL>> \o UnescapeSlashes(Tail2(s))
         ELSE <<Head(s)>> \o UnescapeSlashes(Tail(s))

HasPrefix(s, p) == Len(s) >= Len(p) /\ SubSeq(s, 1, Len(p)) = p

SSPrefix == <<"s", "s", ":", "/", "/">>

Contains(s, c) == \E i \in 1..Len(s) : s[i] = c

(***************************************************************************)
(* yaml.Node                                                               *)
(***************************************************************************)
Node(kind, tag, value, anchor, content) ==
    [kind |-> kind, tag |-> tag, value |-> value, anchor |-> anchor, content |-> content]

(* yaml.Node{}: the value of a Transport field no key was decoded into *)
ZeroNode == Node("zero", "", <<>>, "", <<>>)

NullText == <<"n", "u", "l", "l">>
NullNode == Node("scalar", "!!null", NullText, "", <<>>)
StrNode(v) == Node("scalar", "!!str", v, "", <<>>)
IntNode(v) == Node("scalar", "!!int", v, "", <<>>)
MapNode(anchor, content) == Node("map", "!!map", <<>>, anchor, content)
AliasNode(name) == Node("alias", "", <<name>>, "", <<>>)
Entry(k, v) == [key |-> k, val |-> v]

IsZeroNullToo(n) == n.kind = "zero" \/ n.tag = "!!null"

(* yaml.Node.IsZero *)
IsZero(n) == n.kind = "zero"

Digits == {"0", "1", "2", "3", "4", "5", "6", "7", "8", "9"}
DigitSeq == <<"0", "1", "2", "3", "4", "5", "6", "7", "8", "9">>

IsUintText(v) == v # <<>> /\ \A i \in 1..Len(v) : v[i] \in Digits

DigitVal(c) == (CHOOSE i \in 1..10 : DigitSeq[i] = c) - 1

RECURSIVE ParseUint(_)
ParseUint(v) ==
    IF v = <<>> THEN 0 ELSE 10 * ParseUint(SubSeq(v, 1, Len(v) - 1)) + DigitVal(v[Len(v)])

RECURSIVE FormatUint(_)
FormatUint(n) ==
    IF n < 10 THEN <<DigitSeq[n + 1]>> ELSE FormatUint(n \div 10) \o <<DigitSeq[(n % 10) + 1]>>

(* the tag yaml resolves a plain (unquoted) scalar to *)
ResolvePlain(v) ==
    IF v = <<>> \/ v = NullText \/ v = <<"~">> THEN "!!null"
    ELSE IF IsUintText(v) \/ (Head(v) = "-" /\ IsUintText(Tail(v))) THEN "!!int"
    ELSE "!!str"

(***************************************************************************)
(* A tree in pre-order: one item per node, with its depth and its key.     *)
(***************************************************************************)
Item(depth, key, n) ==
    [depth |-> depth, key |-> key, kind |-> n.kind, tag |-> n.tag,
     value |-> n.value, anchor |-> n.anchor]

RECURSIVE Flatten(_, _, _)
RECURSIVE FlattenEntries(_, _)
Flatten(n, depth, key) ==
    <<Item(depth, key, n)>> \o FlattenEntries(n.content, depth + 1)
FlattenEntries(es, depth) ==
    IF es = <<>> THEN <<>>
    ELSE Flatten(Head(es).val, depth, Head(es).key) \o FlattenEntries(Tail(es), depth)

(* every alias refers to an anchor met earlier in the same text *)
AliasesResolve(items) ==
    \A i \in 1..Len(items) :
        items[i].kind = "alias" =>
            \E j \in 1..(i - 1) : items[j].anchor = items[i].value[1]

(* index of the last item of the subtree rooted at item j *)
SubtreeEnd(items, j) ==
    CHOOSE k \in j..Len(items) :
        /\ \A m \in (j + 1)..k : items[m].depth > items[j].depth
        /\ (k = Len(items) \/ items[k + 1].depth <= items[j].depth)

AnchorIndex(items, i) ==
    CHOOSE j \in 1..(i - 1) :
        /\ items[j].anchor = items[i].value[1]
        /\ \A m \in (j + 1)..(i - 1) : items[m].anchor # items[i].value[1]

Rebase(sub, depth, key) ==
    [m \in 1..Len(sub) |->
        [sub[m] EXCEPT !.depth = depth + (sub[m].depth - sub[1].depth),
                       !.key = IF m = 1 THEN key ELSE sub[m].key,
                       !.anchor = ""]]

(* items i..k with every alias replaced by the subtree it names and every  *)
(* anchor dropped; all of `items` is the scope of the anchors              *)
RECURSIVE ExpandRange(_, _, _)
ExpandRange(items, i, k) ==
    IF i > k THEN <<>>
    ELSE IF items[i].kind = "alias"
         THEN LET j == AnchorIndex(items, i)
              IN  Rebase(SubSeq(items, j, SubtreeEnd(items, j)), items[i].depth, items[i].key)
                  \o ExpandRange(items, i + 1, k)
         ELSE <<[items[i] EXCEPT !.anchor = ""]>> \o ExpandRange(items, i + 1, k)

(***************************************************************************)
(* yaml.Marshal: block style, one line per node.                           *)
(***************************************************************************)
IndentUnit == "    "

RECURSIVE Indent(_)
Indent(depth) == IF depth = 0 THEN <<>> ELSE <<IndentUnit>> \o Indent(depth - 1)

NeedsSingleQuotes(v) == v # <<>> /\ (IsSpace(Head(v)) \/ IsSpace(v[Len(v)]))

(* the text of a scalar: plain where the text reads back as the same value *)
ScalarText(n) ==
    IF n.tag # "!!str" THEN n.value
    ELSE IF NeedsSingleQuotes(n.value) THEN <<"'">> \o n.value \o <<"'">>
    ELSE IF ResolvePlain(n.value) # "!!str" THEN <<"\"">> \o n.value \o <<"\"">>
    ELSE n.value

AnchorText(n) == IF n.anchor = "" THEN <<>> ELSE <<"&", n.anchor>>

RECURSIVE EmitEntries(_, _)
EmitValue(n, depth) ==
    IF n.kind = "alias" THEN <<SP, "*", n.value[1], NL>>
    ELSE IF n.kind = "scalar"
         THEN <<SP>> \o (IF n.anchor = "" THEN <<>> ELSE AnchorText(n) \o <<SP>>)
              \o ScalarText(n) \o <<NL>>
    ELSE IF n.content = <<>>
         THEN <<SP>> \o (IF n.anchor = "" THEN <<>> ELSE AnchorText(n) \o <<SP>>)
              \o <<"{}", NL>>
    ELSE (IF n.anchor = "" THEN <<>> ELSE <<SP>> \o AnchorText(n))
         \o <<NL>> \o EmitEntries(n.content, depth + 1)
EmitEntries(es, depth) ==
    IF es = <<>> THEN <<>>
    ELSE Indent(depth) \o <<Head(es).key, ":">> \o EmitValue(Head(es).val, depth)
         \o EmitEntries(Tail(es), depth)

(* yaml.Marshal(tunnelConfig.Transport) *)
MarshalNode(n) ==
    IF n.kind = "alias" THEN <<"*", n.value[1], NL>>
    ELSE IF n.kind = "scalar"
         THEN (IF n.anchor = "" THEN <<>> ELSE AnchorText(n) \o <<SP>>)
              \o ScalarText(n) \o <<NL>>
    ELSE IF n.content = <<>>
         THEN (IF n.anchor = "" THEN <<>> ELSE AnchorText(n) \o <<SP>>) \o <<"{}", NL>>
    ELSE (IF n.anchor = "" THEN <<>> ELSE AnchorText(n) \o <<NL>>)
         \o EmitEntries(n.content, 0)

(***************************************************************************)
(* Reading canonical text back: the lines of a block-style text, each one  *)
(* a node, to the pre-order items of the tree.                             *)
(***************************************************************************)
RECURSIVE SplitLines(_)
SplitLines(t) ==
    IF t = <<>> THEN <<>>
    ELSE LET k == CHOOSE i \in 1..(Len(t) + 1) :
                      /\ (i = Len(t) + 1 \/ t[i] = NL)
                      /\ \A m \in 1..(i - 1) : t[m] # NL
         IN  <<SubSeq(t, 1, k - 1)>> \o SplitLines(SubSeq(t, k + 1, Len(t)))

RECURSIVE IndentOf(_)
IndentOf(line) ==
    IF line # <<>> /\ Head(line) = IndentUnit THEN 1 + IndentOf(Tail(line)) ELSE 0

ReadScalar(t) ==
    IF t # <<>> /\ Head(t) \in {"'", "\""}
    THEN [tag |-> "!!str", value |-> SubSeq(t, 2, Len(t) - 1)]
    ELSE [tag |-> ResolvePlain(t), value |-> t]

(* the node a line's text after its key (or a whole root line) writes *)
ReadValue(depth, key, r) ==
    LET anchored == r # <<>> /\ Head(r) = "&"
        anchor == IF anchored THEN r[2] ELSE ""
        body == IF anchored THEN SubSeq(r, 4, Len(r)) ELSE r
    IN  IF r # <<>> /\ Head(r) = "*"
        THEN Item(depth, key, AliasNode(r[2]))
        ELSE IF body = <<>> \/ body = <<"{}">>
        THEN Item(depth, key, MapNode(anchor, <<>>))
        ELSE LET s == ReadScalar(body)
             IN  Item(depth, key, Node("scalar", s.tag, s.value, anchor, <<>>))

IsKeyed(line) ==
    LET n == IndentOf(line) IN Len(line) >= n + 2 /\ line[n + 2] = ":"

ReadLine(line) ==
    LET n == IndentOf(line)
        rest == SubSeq(line, n + 3, Len(line))
    IN  ReadValue(n + 1, line[n + 1], IF rest = <<>> THEN <<>> ELSE Tail(rest))

(* yaml parsing of a canonical text, on its own *)
ReadText(text) ==
    LET lines == SplitLines(text)
        keyedFrom(i) == [m \in 1..(Len(lines) - i + 1) |-> ReadLine(lines[m + i - 1])]
        items ==
            IF lines = <<>> THEN <<>>
            ELSE IF IsKeyed(lines[1])
                 THEN <<Item(0, "", MapNode("", <<>>))>> \o keyedFrom(1)
            ELSE IF Len(lines) > 1
                 THEN <<Item(0, "", MapNode(lines[1][2], <<>>))>> \o keyedFrom(2)
            ELSE <<ReadValue(0, "", lines[1])>>
    IN  [ok |-> AliasesResolve(items), items |-> items]

(***************************************************************************)
(* encoding/json: the response object, and reading it back.                *)
(***************************************************************************)
JsonEscapeLexeme(c) ==
    CASE c = "\"" -> "\\\""
      [] c = BS -> "\\\\"
      [] c = NL -> "\\n"
      [] c = "&" -> "\\u0026"
      [] c = "<" -> "\\u003c"
      [] c = ">" -> "\\u003e"
      [] OTHER -> c

JsonUnescapeLexeme(c) ==
    CASE c = "\\\"" -> "\""
      [] c = "\\\\" -> BS
      [] c = "\\n" -> NL
      [] c = "\\u0026" -> "&"
      [] c = "\\u003c" -> "<"
      [] c = "\\u003e" -> ">"
      [] OTHER -> c

JsonEscape(s) == [i \in 1..Len(s) |-> JsonEscapeLexeme(s[i])]
JsonUnescape(s) == [i \in 1..Len(s) |-> JsonUnescapeLexeme(s[i])]

(* json.Marshal(tunnelConfigJson{...}) *)
JsonMarshal(response) ==
    <<"{", "\"firstHop\":", "\"">> \o JsonEscape(response.FirstHop)
    \o <<"\"", ",", "\"transport\":", "\"">> \o JsonEscape(response.Transport)
    \o <<"\"", "}">>

(* what config.ts reads out of the value *)
JsonRead(value) ==
    LET q == CHOOSE i \in 4..Len(value) :
                 value[i] = "\"" /\ \A m \in 4..(i - 1) : value[m] # "\""
    IN  [FirstHop |-> JsonUnescape(SubSeq(value, 4, q - 1)),
         Transport |-> JsonUnescape(SubSeq(value, q + 4, Len(value) - 2))]

(***************************************************************************)
(* platerrors.PlatformError and InvokeMethodResult                         *)
(***************************************************************************)
NilDetails == [isNil |-> TRUE, entries |-> <<>>]
DetailsMap(entries) == [isNil |-> FALSE, entries |-> entries]

NilError == [isNil |-> TRUE, Code |-> "", Message |-> <<>>, Details |-> NilDetails]
PlatformError(code, message, details) ==
    [isNil |-> FALSE, Code |-> code, Message |-> message, Details |-> details]

InvalidConfig == "InvalidConfig"
ProviderError == "ProviderError"
InternalError == "InternalError"

(* the zero InvokeMethodResult: what the caller holds before the return *)
NoResult == [Value |-> <<>>, Error |-> NilError]

ErrorResult(e) == [Value |-> <<>>, Error |-> e]

ValueResultWithError(v) ==
    [Value |-> v, Error |-> PlatformError(InternalError, <<"ok">>, NilDetails)]

ValueResult(v) == [Value |-> v, Error |-> NilError]

(* lines 67-70 and 93-96 *)
ParseFailure(err) ==
    PlatformError(InvalidConfig, <<"failed to parse: ">> \o err, NilDetails)

(* lines 106-109 *)
NormalizeFailure(err) ==
    PlatformError(InvalidConfig, <<"failed normalize config: ">> \o err, NilDetails)

(* lines 129-132 *)
SerializeFailure(err) ==
    PlatformError(InternalError, <<"failed to serialize JSON response: ">> \o err, NilDetails)

ProviderPlatformErrorAlwaysDetails(e) ==
    PlatformError(ProviderError, e.Message,
                  DetailsMap(<<[key |-> "details", val |-> e.Details]>>))

(* lines 76-84 *)
ProviderPlatformError(e) ==
    PlatformError(ProviderError, e.Message,
                  IF e.Details # <<>>
                  THEN DetailsMap(<<[key |-> "details", val |-> e.Details]>>)
                  ELSE NilDetails)

FirstHopStreamAlways(stream, packet) == stream

(* lines 122-125 *)
FirstHopOf(stream, packet) == IF stream = packet THEN stream ELSE <<>>

(***************************************************************************)
(* yaml.Unmarshal into parseTunnelConfigRequest and legacyShadowsocksConfig*)
(***************************************************************************)
NoErr == <<>>
SyntaxErr == <<"yaml: line 1: did not find expected node content">>
UnknownAnchorErr == <<"yaml: unknown anchor referenced">>
TypeErr == <<"yaml: unmarshal errors: cannot unmarshal">>

HasKey(es, k) == \E i \in 1..Len(es) : es[i].key = k
Lookup(es, k) ==
    IF HasKey(es, k) THEN es[CHOOSE i \in 1..Len(es) : es[i].key = k].val ELSE ZeroNode

(* the input as the yaml parser sees it: a syntax error, no document (an   *)
(* empty text), a scalar document or a mapping document                    *)
YamlLoad(in) ==
    IF in.form = "text"
    THEN IF in.text = <<>> THEN [err |-> NoErr, root |-> "none", doc |-> <<>>]
         ELSE IF Head(in.text) = "{" THEN [err |-> SyntaxErr, root |-> "none", doc |-> <<>>]
         ELSE [err |-> NoErr, root |-> "scalar", doc |-> <<>>]
    ELSE IF ~AliasesResolve(FlattenEntries(in.doc, 0))
         THEN [err |-> UnknownAnchorErr, root |-> "none", doc |-> <<>>]
         ELSE [err |-> NoErr, root |-> "map", doc |-> in.doc]

(* a string field: absent and null leave "", another scalar gives its text *)
DecodeString(n) ==
    IF n.kind = "zero" \/ n.tag = "!!null" THEN [err |-> NoErr, v |-> <<>>]
    ELSE IF n.kind = "scalar" THEN [err |-> NoErr, v |-> n.value]
    ELSE [err |-> TypeErr, v |-> <<>>]

(* a uint field *)
DecodeUint(n) ==
    IF n.kind = "zero" \/ n.tag = "!!null" THEN [err |-> NoErr, v |-> 0]
    ELSE IF n.kind = "scalar" /\ n.tag = "!!int" /\ IsUintText(n.value)
         THEN [err |-> NoErr, v |-> ParseUint(n.value)]
    ELSE [err |-> TypeErr, v |-> 0]

NilErrorField == [isNil |-> TRUE, Message |-> <<>>, Details |-> <<>>]

(* the Error field, a pointer to a struct: absent and null leave nil, a    *)
(* mapping (an empty one too) allocates the struct                         *)
DecodeErrorField(n) ==
    IF n.kind = "zero" \/ n.tag = "!!null" THEN [err |-> NoErr, v |-> NilErrorField]
    ELSE IF n.kind = "map"
         THEN LET m == DecodeString(Lookup(n.content, "message"))
                  d == DecodeString(Lookup(n.content, "details"))
              IN  [err |-> IF m.err # NoErr THEN m.err ELSE d.err,
                   v |-> [isNil |-> FALSE, Message |-> m.v, Details |-> d.v]]
    ELSE [err |-> TypeErr, v |-> NilErrorField]

ZeroRequest == [Transport |-> ZeroNode, Error |-> NilErrorField]

(* line 65: yaml.Unmarshal([]byte(input), &tunnelConfig) *)
UnmarshalRequest(in) ==
    LET y == YamlLoad(in)
        e == DecodeErrorField(Lookup(y.doc, "error"))
    IN  IF y.err # NoErr THEN [err |-> y.err, v |-> ZeroRequest]
        ELSE IF y.root = "none" THEN [err |-> NoErr, v |-> ZeroRequest]
        ELSE IF y.root = "scalar" THEN [err |-> TypeErr, v |-> ZeroRequest]
        ELSE [err |-> e.err,
              v |-> [Transport |-> Lookup(y.doc, "transport"), Error |-> e.v]]

ZeroLegacy == [Server |-> <<>>, ServerPort |-> 0, Method |-> <<>>,
               Password |-> <<>>, Prefix |-> <<>>]

(* line 91: yaml.Unmarshal([]byte(input), &legacyConfig) *)
UnmarshalLegacy(in) ==
    LET y == YamlLoad(in)
        server == DecodeString(Lookup(y.doc, "server"))
        port == DecodeUint(Lookup(y.doc, "server_port"))
        method == DecodeString(Lookup(y.doc, "method"))
        password == DecodeString(Lookup(y.doc, "password"))
        prefix == DecodeString(Lookup(y.doc, "prefix"))
        errs == {server.err, port.err, method.err, password.err, prefix.err} \ {NoErr}
    IN  IF y.err # NoErr THEN [err |-> y.err, v |-> ZeroLegacy]
        ELSE IF y.root = "none" THEN [err |-> NoErr, v |-> ZeroLegacy]
        ELSE IF y.root = "scalar" THEN [err |-> TypeErr, v |-> ZeroLegacy]
        ELSE [err |-> IF errs = {} THEN NoErr ELSE TypeErr,
              v |-> [Server |-> server.v, ServerPort |-> port.v, Method |-> method.v,
                     Password |-> password.v, Prefix |-> prefix.v]]

MarshalLegacyOmitEmpty(c) ==
    EmitEntries(<<Entry("server", StrNode(c.Server)),
                  Entry("server_port", IntNode(FormatUint(c.ServerPort))),
                  Entry("method", StrNode(c.Method)),
                  Entry("password", StrNode(c.Password))>>
                \o (IF c.Prefix = <<>> THEN <<>> ELSE <<Entry("prefix", StrNode(c.Prefix))>>),
                0)

(* line 99: yaml.Marshal(legacyConfig), the fields of lines 35-39 in order *)
MarshalLegacy(c) ==
    EmitEntries(<<Entry("server", StrNode(c.Server)),
                  Entry("server_port", IntNode(FormatUint(c.ServerPort))),
                  Entry("method", StrNode(c.Method)),
                  Entry("password", StrNode(c.Password)),
                  Entry("prefix", StrNode(c.Prefix))>>, 0)

(***************************************************************************)
(* Inputs.  A text input is padding, a body and padding; a document input  *)
(* is the entries of a top-level mapping, every scalar written plain.      *)
(***************************************************************************)
RECURSIVE Pad(_)
Pad(n) == IF n = 0 THEN <<>> ELSE <<SP>> \o Pad(n - 1)

TailChars == {"a", BS, SL}

RECURSIVE Tails(_)
Tails(n) ==
    IF n = 0 THEN {<<>>}
    ELSE Tails(n - 1) \cup {t \o <<c>> : t \in Tails(n - 1), c \in TailChars}

UriBodies == {SSPrefix \o t : t \in Tails(MaxTail)}

OtherBodies ==
    {<<>>, <<"{">>, <<"a">>,
     <<"s", "s", ":", BS, SL, BS, SL, "a">>,
     <<"s", "s", ":", SL, "a">>}

TextInput(t) == [form |-> "text", text |-> t, doc |-> <<>>]
DocInput(d) == [form |-> "doc", text |-> <<>>, doc |-> d]

TextInputs ==
    {TextInput(Pad(l) \o b \o Pad(r)) :
        l \in 0..MaxPad, r \in 0..MaxPad, b \in UriBodies \cup OtherBodies}

Absent == ZeroNode
Opt(k, n) == IF n = Absent THEN <<>> ELSE <<Entry(k, n)>>

Escaped == <<"a", BS, SL, "b">>
Shared == MapNode("shared", <<Entry("endpoint", StrNode(<<"a">>))>>)

DefsChoices == {Absent, Shared}

ErrorChoices ==
    {Absent, NullNode, StrNode(<<"a">>),
     MapNode("", <<Entry("message", MapNode("", <<>>))>>)}
    \cup {MapNode("", Opt("message", m) \o Opt("details", d)) :
            m \in {Absent, StrNode(<<"U">>), StrNode(Escaped)},
            d \in {Absent, StrNode(<<>>), StrNode(<<"d">>)}}

TransportChoices ==
    {Absent, NullNode, StrNode(<<>>), StrNode(<<"a">>), AliasNode("shared")}
    \cup {MapNode("", Opt("tcp", t) \o Opt("udp", u)) :
            t \in {StrNode(Escaped), Shared, AliasNode("shared"),
                   MapNode("", <<Entry("endpoint", StrNode(<<"a">>))>>)},
            u \in {Absent, AliasNode("shared"), StrNode(<<"a">>)}}

PortChoices ==
    {Absent, StrNode(<<"a">>), IntNode(<<"-", "1">>)}
    \cup {IntNode(FormatUint(n)) : n \in (0..MaxPort) \cup {TestPort}}

LegacyChoices ==
    {Opt("server", s) \o Opt("server_port", p) \o Opt("method", m)
        \o Opt("password", w) \o Opt("prefix", x) :
        s \in {Absent, StrNode(<<"a">>), IntNode(<<"1", "2">>)},
        p \in PortChoices,
        m \in {Absent, StrNode(<<"m">>)},
        w \in {Absent, StrNode(Escaped)},
        x \in {Absent, NullNode, StrNode(<<"P", SP>>)}}

FullLegacy ==
    <<Entry("server", StrNode(<<"a">>)), Entry("server_port", IntNode(FormatUint(TestPort))),
      Entry("method", StrNode(<<"m">>)), Entry("password", StrNode(<<"w">>)),
      Entry("prefix", StrNode(<<"P", SP>>))>>

DocInputs ==
    {DocInput(Opt("defs", d) \o Opt("error", e) \o l) :
        d \in DefsChoices, e \in {Absent, NullNode}, l \in LegacyChoices}
    \cup
    {DocInput(Opt("defs", d) \o Opt("error", e) \o Opt("transport", t) \o l) :
        d \in DefsChoices, e \in ErrorChoices, t \in TransportChoices,
        l \in {<<>>, FullLegacy}}

Inputs == TextInputs \cup DocInputs

RECURSIVE UnescapeNode(_)
UnescapeNode(n) ==
    [n EXCEPT !.value = IF n.kind = "scalar" THEN UnescapeSlashes(n.value) ELSE n.value,
              !.content = [i \in 1..Len(n.content) |->
                              Entry(n.content[i].key, UnescapeNode(n.content[i].val))]]

(* lines 52-53: TrimSpace, then ReplaceAll; on a document the replacement  *)
(* rewrites the text of every scalar                                       *)
NormalizeInput(in) ==
    IF in.form = "text"
    THEN TextInput(UnescapeSlashes(TrimSpace(in.text)))
    ELSE DocInput([i \in 1..Len(in.doc) |->
                      Entry(in.doc[i].key, UnescapeNode(in.doc[i].val))])

(* line 58 *)
IsUriForm(in) == in.form = "text" /\ HasPrefix(in.text, SSPrefix)

(***************************************************************************)
(* The collaborator NewClient and the serializers' failures.               *)
(***************************************************************************)
Hops == {<<>>, <<"a:1">>, <<"b:2">>}

ClientErrors ==
    {PlatformError("SetupTrafficHandlerFailed", <<"failed to create client">>, NilDetails),
     PlatformError(InvalidConfig, <<"invalid config">>,
                   DetailsMap(<<[key |-> "cause", val |-> <<"x">>]>>))}

NoClient == [streamFirstHop |-> <<>>, packetFirstHop |-> <<>>]
NoClientResult == [Client |-> NoClient, Error |-> NilError]

ClientOutcomes ==
    {[Client |-> NoClient, Error |-> e] : e \in ClientErrors}
    \cup {[Client |-> [streamFirstHop |-> s, packetFirstHop |-> p], Error |-> NilError] :
            s \in Hops, p \in Hops}

YamlMarshalOutcomes == {NoErr, <<"yaml: cannot marshal">>}
JsonMarshalOutcomes == {NoErr, <<"json: unsupported value">>}

WrappedValidationFailure(e) ==
    PlatformError(InvalidConfig, <<"failed to validate: ">> \o e.Message, NilDetails)

(* lines 115-119: the collaborator's error is returned as it is *)
ValidationFailure(e) == e

(***************************************************************************)
(* State                                                                   *)
(***************************************************************************)
VARIABLES raw, pc, input, tunnelConfig, legacyConfig, transportConfigText,
          result, response, ret, clientArgs, unmarshalCalls, history

vars == <<raw, pc, input, tunnelConfig, legacyConfig, transportConfigText,
          result, response, ret, clientArgs, unmarshalCalls, history>>

NoResponse == [FirstHop |-> <<>>, Transport |-> <<>>]

Init ==
    /\ raw \in Inputs
    /\ pc = "Start"
    /\ input = raw
    /\ tunnelConfig = ZeroRequest
    /\ legacyConfig = ZeroLegacy
    /\ transportConfigText = <<>>
    /\ result = NoClientResult
    /\ response = NoResponse
    /\ ret = NoResult
    /\ clientArgs = <<>>
    /\ unmarshalCalls = 0
    /\ history = <<"Start">>

(* lines 52-98: normalise, detect the form, parse, classify *)
Detect ==
    /\ pc = "Start"
    /\ LET in == NormalizeInput(raw)
           req == UnmarshalRequest(in)
           leg == UnmarshalLegacy(in)
           next ==
               IF IsUriForm(in) THEN "URIForm"
               ELSE IF req.err # NoErr THEN "ParseFailed"
               ELSE IF ~req.v.Error.isNil THEN "ProviderError"
               ELSE IF ~IsZero(req.v.Transport) THEN "ModernConfig"
               ELSE IF leg.err # NoErr THEN "ParseFailed"
               ELSE "LegacyConfig"
           legacyTried ==
               ~IsUriForm(in) /\ req.err = NoErr /\ req.v.Error.isNil
               /\ IsZero(req.v.Transport)
       IN  /\ input' = in
           /\ pc' = next
           /\ history' = Append(history, next)
           /\ tunnelConfig' = IF IsUriForm(in) THEN ZeroRequest ELSE req.v
           /\ legacyConfig' = IF legacyTried THEN leg.v ELSE ZeroLegacy
           /\ unmarshalCalls' =
                  IF IsUriForm(in) THEN 0 ELSE IF legacyTried THEN 2 ELSE 1
           /\ ret' = IF next = "ParseFailed"
                     THEN ErrorResult(ParseFailure(IF req.err # NoErr THEN req.err ELSE leg.err))
                     ELSE IF next = "ProviderError"
                     THEN ErrorResult(ProviderPlatformError(req.v.Error))
                     ELSE NoResult
    /\ UNCHANGED <<raw, transportConfigText, result, response, clientArgs>>

(* lines 59 and 99-112: the canonical transport text *)
Canonicalize ==
    /\ pc \in {"URIForm", "LegacyConfig", "ModernConfig"}
    /\ \E merr \in YamlMarshalOutcomes :
        /\ pc = "URIForm" => merr = NoErr
        /\ LET next == IF merr # NoErr THEN "NormalizeFailed" ELSE "Canonicalized"
           IN  /\ pc' = next
               /\ history' = Append(history, next)
               /\ transportConfigText' =
                      IF merr # NoErr THEN <<>>
                      ELSE IF pc = "URIForm" THEN input.text
                      ELSE IF pc = "LegacyConfig" THEN MarshalLegacy(legacyConfig)
                      ELSE MarshalNode(tunnelConfig.Transport)
               /\ ret' = IF merr # NoErr THEN ErrorResult(NormalizeFailure(merr)) ELSE NoResult
    /\ UNCHANGED <<raw, input, tunnelConfig, legacyConfig, result, response,
                   clientArgs, unmarshalCalls>>

ValidateWithRetry ==
    /\ pc \in {"Canonicalized", "ValidationFailed"}
    /\ \E out \in ClientOutcomes :
        LET next == IF ~out.Error.isNil THEN "ValidationFailed" ELSE "Validated"
        IN  /\ result' = out
            /\ pc' = next
            /\ history' = Append(history, next)
            /\ ret' = IF ~out.Error.isNil THEN ErrorResult(ValidationFailure(out.Error))
                      ELSE NoResult
    /\ clientArgs' = Append(clientArgs, transportConfigText)
    /\ UNCHANGED <<raw, input, tunnelConfig, legacyConfig, transportConfigText,
                   response, unmarshalCalls>>

(* lines 114-119: NewClient(transportConfigText) *)
Validate ==
    /\ pc = "Canonicalized"
    /\ \E out \in ClientOutcomes :
        LET next == IF ~out.Error.isNil THEN "ValidationFailed" ELSE "Validated"
        IN  /\ result' = out
            /\ pc' = next
            /\ history' = Append(history, next)
            /\ ret' = IF ~out.Error.isNil THEN ErrorResult(ValidationFailure(out.Error))
                      ELSE NoResult
    /\ clientArgs' = Append(clientArgs, transportConfigText)
    /\ UNCHANGED <<raw, input, tunnelConfig, legacyConfig, transportConfigText,
                   response, unmarshalCalls>>

(* lines 120-138: the response and its serialization *)
BuildResponse ==
    /\ pc = "Validated"
    /\ \E jerr \in JsonMarshalOutcomes :
        LET r == [FirstHop |-> FirstHopOf(result.Client.streamFirstHop,
                                          result.Client.packetFirstHop),
                  Transport |-> transportConfigText]
            next == IF jerr # NoErr THEN "SerializationFailed" ELSE "Success"
        IN  /\ response' = r
            /\ pc' = next
            /\ history' = Append(history, next)
            /\ ret' = IF jerr # NoErr THEN ErrorResult(SerializeFailure(jerr))
                      ELSE ValueResult(JsonMarshal(r))
    /\ UNCHANGED <<raw, input, tunnelConfig, legacyConfig, transportConfigText,
                   result, clientArgs, unmarshalCalls>>

Next == Detect \/ Canonicalize \/ Validate \/ BuildResponse

Spec == Init /\ [][Next]_vars

Returned == pc \in {"ParseFailed", "ProviderError", "NormalizeFailed",
                    "ValidationFailed", "SerializationFailed", "Success"}

(***************************************************************************)
(* Properties                                                              *)
(***************************************************************************)
Class == IF Len(history) >= 2 THEN history[2] ELSE "Start"
Passed(stage) == \E i \in 1..Len(history) : history[i] = stage

HasValue == ret.Value # <<>>
HasError == ~ret.Error.isNil

(* C1: the result returned carries exactly one of a value and an error,    *)
(* whatever the input and whatever the collaborator answers; nothing is    *)
(* set before the return.                                                  *)
C1_ExactlyOne ==
    /\ Returned => (HasValue /\ ~HasError) \/ (~HasValue /\ HasError)
    /\ pc = "Success" => HasValue
    /\ pc \in {"ParseFailed", "ProviderError", "NormalizeFailed", "ValidationFailed",
               "SerializationFailed"} => HasError
    /\ ~Returned => ret = NoResult

C1_Witness == pc = "Success" /\ HasValue /\ ~HasError

(* C2: every error returned has a non-empty code and a non-empty message.  *)
C2_NonEmptyError ==
    (Returned /\ HasError) => (ret.Error.Code # "" /\ ret.Error.Message # <<>>)

(* text of a string field of a mapping node: "" when absent or null *)
FieldText(es, k) ==
    IF HasKey(es, k) /\ Lookup(es, k).tag # "!!null" THEN Lookup(es, k).value ELSE <<>>

ErrorNode == Lookup(input.doc, "error")
TransportNode == Lookup(input.doc, "transport")
Parsed == pc # "Start" /\ Class # "ParseFailed" /\ Class # "URIForm"

(* C3: a parsed document with a top-level error object is answered with a  *)
(* ProviderError whose message is the object's message and whose details   *)
(* map is nil when details is empty and {"details": details} otherwise.    *)
C3_ProviderError ==
    (Parsed /\ ErrorNode.kind = "map") =>
        /\ pc = "ProviderError"
        /\ ~HasValue
        /\ ret.Error.Code = ProviderError
        /\ ret.Error.Message = FieldText(ErrorNode.content, "message")
        /\ (FieldText(ErrorNode.content, "details") = <<>> => ret.Error.Details.isNil)
        /\ (FieldText(ErrorNode.content, "details") # <<>> =>
                ret.Error.Details =
                    DetailsMap(<<[key |-> "details",
                                  val |-> FieldText(ErrorNode.content, "details")]>>))

C3_Witness ==
    /\ pc = "ProviderError"
    /\ ret.Error.Message = <<"U">>
    /\ ~ret.Error.Details.isNil
    /\ Len(ret.Error.Details.entries) = 1

Rank(stage) ==
    CASE stage = "Start" -> 0
      [] stage \in {"URIForm", "ParseFailed", "ProviderError", "LegacyConfig",
                    "ModernConfig"} -> 1
      [] stage \in {"Canonicalized", "NormalizeFailed"} -> 2
      [] stage \in {"ValidationFailed", "Validated"} -> 3
      [] OTHER -> 4

FailureStages == {"ParseFailed", "ProviderError", "NormalizeFailed", "ValidationFailed",
                  "SerializationFailed"}

(* C4: NewClient is called at most once, with the canonical text and only  *)
(* after it was produced, never on a path through ParseFailed,             *)
(* ProviderError or NormalizeFailed; the stages run in order, none twice,  *)
(* and none after a failure.                                               *)
C4_SingleValidation ==
    /\ Len(clientArgs) <= 1
    /\ clientArgs # <<>> =>
        /\ Passed("Canonicalized")
        /\ clientArgs[1] = transportConfigText
        /\ ~Passed("ParseFailed") /\ ~Passed("ProviderError") /\ ~Passed("NormalizeFailed")
    /\ (Passed("ParseFailed") \/ Passed("ProviderError") \/ Passed("NormalizeFailed")) =>
        clientArgs = <<>>
    /\ \A i \in 1..(Len(history) - 1) :
        /\ Rank(history[i]) + 1 = Rank(history[i + 1])
        /\ history[i] \notin FailureStages
    /\ unmarshalCalls <= 2

C4_Witness == pc = "ValidationFailed" /\ Len(clientArgs) = 1 /\ Class = "ModernConfig"

(* C5: on success the transport read out of the value is the text NewClient*)
(* was given, and firstHop is the stream first hop when both first hops are*)
(* non-empty and equal, and empty otherwise.                               *)
C5_SuccessResult ==
    pc = "Success" =>
        LET r == JsonRead(ret.Value)
            s == result.Client.streamFirstHop
            p == result.Client.packetFirstHop
        IN  /\ r.Transport = clientArgs[1]
            /\ r.Transport = transportConfigText
            /\ r.FirstHop = IF s # <<>> /\ p # <<>> /\ s = p THEN s ELSE <<>>

C5_Witness ==
    /\ pc = "Success"
    /\ result.Client.streamFirstHop = <<"a:1">>
    /\ result.Client.packetFirstHop = <<"b:2">>
    /\ JsonRead(ret.Value).FirstHop = <<>>
    /\ JsonRead(ret.Value).Transport # <<>>

EndsWith(s, e) == Len(s) >= Len(e) /\ SubSeq(s, Len(s) - Len(e) + 1, Len(s)) = e

(* the parser's error for the normalised input, read off the input *)
ParserError ==
    IF input.form = "text"
    THEN IF Head(input.text) = "{" THEN SyntaxErr ELSE TypeErr
    ELSE IF \E i \in 1..Len(input.doc) :
                ~AliasesResolve(FlattenEntries(SubSeq(input.doc, 1, i), 0))
         THEN UnknownAnchorErr
         ELSE TypeErr

(* C6: the error returned is the one of the stage that failed, with no     *)
(* value: InvalidConfig with the parser's or serializer's text for a parse *)
(* or normalisation failure, the collaborator's own error unchanged, and   *)
(* InternalError with the serializer's text for the response.              *)
C6_FirstError ==
    /\ pc \in FailureStages => ~HasValue /\ HasError
    /\ pc = "ParseFailed" =>
        /\ ret.Error.Code = InvalidConfig
        /\ EndsWith(ret.Error.Message, ParserError)
        /\ clientArgs = <<>>
    /\ pc = "NormalizeFailed" =>
        /\ ret.Error.Code = InvalidConfig
        /\ \E e \in YamlMarshalOutcomes \ {NoErr} : EndsWith(ret.Error.Message, e)
        /\ clientArgs = <<>>
    /\ pc = "ValidationFailed" => ret.Error = result.Error /\ result.Error \in ClientErrors
    /\ pc = "SerializationFailed" =>
        /\ ret.Error.Code = InternalError
        /\ \E e \in JsonMarshalOutcomes \ {NoErr} : EndsWith(ret.Error.Message, e)

C6_Witness ==
    /\ pc = "ValidationFailed"
    /\ ret.Error.Code = InvalidConfig
    /\ ~ret.Error.Details.isNil
    /\ ret.Error.Message = <<"invalid config">>

(* the text between the first and the last non-space character *)
Core(t) ==
    LET idx == {i \in 1..Len(t) : ~IsSpace(t[i])}
    IN  IF idx = {} THEN <<>>
        ELSE SubSeq(t, CHOOSE i \in idx : \A j \in idx : i <= j,
                       CHOOSE i \in idx : \A j \in idx : i >= j)

UriInput == raw.form = "text" /\ HasPrefix(Core(raw.text), SSPrefix) /\ pc # "Start"

(* C7 as stated: an ss:// input is URI-form, is never parsed, and its      *)
(* canonical text is the input verbatim (taken here as the trimmed input). *)
C7_Verbatim ==
    UriInput =>
        /\ Class = "URIForm"
        /\ unmarshalCalls = 0
        /\ Passed("Canonicalized") => transportConfigText = Core(raw.text)

(* C7 amended: an ss:// input is URI-form, is never parsed, and its        *)
(* canonical text (the text given to NewClient and returned as transport)  *)
(* is the trimmed input with every \/ replaced by /; it is the trimmed     *)
(* input itself when that holds no backslash.                              *)
C7_UriForm ==
    UriInput =>
        /\ Class = "URIForm"
        /\ unmarshalCalls = 0
        /\ tunnelConfig = ZeroRequest
        /\ Passed("Canonicalized") =>
            /\ transportConfigText = UnescapeSlashes(Core(raw.text))
            /\ ~Contains(raw.text, BS) => transportConfigText = Core(raw.text)
        /\ clientArgs # <<>> => clientArgs[1] = UnescapeSlashes(Core(raw.text))
        /\ pc = "Success" =>
            JsonRead(ret.Value).Transport = UnescapeSlashes(Core(raw.text))

C7_Witness ==
    /\ pc = "Success"
    /\ raw.text = <<SP>> \o SSPrefix \o <<BS, SL>> \o <<SP>>
    /\ JsonRead(ret.Value).Transport = SSPrefix \o <<SL>>

IsEmptyValue(n) ==
    \/ n.tag = "!!null"
    \/ (n.kind = "scalar" /\ n.value = <<>>)
    \/ (n.kind = "map" /\ n.content = <<>>)

ParsedDocument == Parsed /\ Class \in {"ProviderError", "ModernConfig", "LegacyConfig"}

(* C8 as stated: error present and non-empty gives provider-error, else    *)
(* transport present and non-empty, non-null gives modern, else legacy.    *)
C8_NonEmptyPrecedence ==
    ParsedDocument =>
        Class = IF HasKey(input.doc, "error") /\ ~IsEmptyValue(ErrorNode)
                THEN "ProviderError"
                ELSE IF HasKey(input.doc, "transport") /\ ~IsEmptyValue(TransportNode)
                THEN "ModernConfig"
                ELSE "LegacyConfig"

(* C8 amended: an error key whose value is not null (an empty mapping too) *)
(* gives provider-error, even beside a transport key; else a transport key *)
(* that is present, whatever its value (null and the empty string too),    *)
(* gives modern; else legacy.  The document is classified once.            *)
C8_PresencePrecedence ==
    ParsedDocument =>
        /\ Class = IF HasKey(input.doc, "error") /\ ErrorNode.tag # "!!null"
                   THEN "ProviderError"
                   ELSE IF HasKey(input.doc, "transport")
                   THEN "ModernConfig"
                   ELSE "LegacyConfig"
        /\ Cardinality({i \in 1..Len(history) :
                           history[i] \in {"ProviderError", "ModernConfig",
                                           "LegacyConfig"}}) = 1

C8_Witness ==
    /\ Class = "ModernConfig"
    /\ HasKey(input.doc, "transport")
    /\ TransportNode = NullNode
    /\ pc = "Canonicalized"
    /\ transportConfigText = NullText \o <<NL>>

(* the transport subtree of the input document with every alias expanded,  *)
(* as pre-order items rooted at depth 0                                    *)
ExpandedTransport ==
    LET items == FlattenEntries(input.doc, 0)
        t == CHOOSE i \in 1..Len(items) : items[i].depth = 0 /\ items[i].key = "transport"
        x == ExpandRange(items, t, SubtreeEnd(items, t))
    IN  [m \in 1..Len(x) |-> IF m = 1 THEN [x[m] EXCEPT !.key = ""] ELSE x[m]]

(* C9: the canonical text of a modern config, parsed on its own, is the    *)
(* transport subtree with every alias expanded, wherever the anchor is.    *)
C9_AliasRoundTrip ==
    (Class = "ModernConfig" /\ Passed("Canonicalized")) =>
        LET rd == ReadText(transportConfigText)
        IN  /\ rd.ok
            /\ ExpandRange(rd.items, 1, Len(rd.items)) = ExpandedTransport

PortText ==
    IF HasKey(input.doc, "server_port") /\ Lookup(input.doc, "server_port").tag # "!!null"
    THEN Lookup(input.doc, "server_port").value
    ELSE <<"0">>

LegacyKeys == <<"server", "server_port", "method", "password", "prefix">>

(* C10: the canonical text of a legacy config holds exactly the keys       *)
(* server, server_port, method, password, prefix in this order, each with  *)
(* the value the input gives it and the zero value where the input gives   *)
(* none; a document of unrelated keys only is such a config.               *)
C10_LegacyCanonical ==
    /\ (Class = "LegacyConfig" /\ Passed("Canonicalized")) =>
        LET rd == ReadText(transportConfigText)
        IN  /\ rd.ok
            /\ Len(rd.items) = 6
            /\ rd.items[1].kind = "map"
            /\ \A i \in 1..5 :
                /\ rd.items[i + 1].key = LegacyKeys[i]
                /\ rd.items[i + 1].depth = 1
                /\ rd.items[i + 1].kind = "scalar"
                /\ rd.items[i + 1].anchor = ""
                /\ rd.items[i + 1].tag = IF i = 2 THEN "!!int" ELSE "!!str"
                /\ rd.items[i + 1].value =
                       IF i = 2 THEN PortText ELSE FieldText(input.doc, LegacyKeys[i])
            /\ clientArgs # <<>> => clientArgs[1] = transportConfigText
    /\ (Parsed /\ ~HasKey(input.doc, "error") /\ ~HasKey(input.doc, "transport")
        /\ \A k \in 1..5 : ~HasKey(input.doc, LegacyKeys[k])) => Class = "LegacyConfig"

C10_Witness ==
    /\ raw = DocInput(<<Entry("defs", Shared)>>)
    /\ Class = "LegacyConfig"
    /\ Len(clientArgs) = 1
    /\ ReadText(clientArgs[1]).items[6].value = <<>>
    /\ ReadText(clientArgs[1]).items[3].value = <<"0">>

=============================================================================
